---- MODULE Spec2Model ----
(***************************************************************************)
(* Job Forge: the job-post lifecycle (server actions, payment webhook,     *)
(* scheduled expiration), the favorites relation and the browsing views,   *)
(* over the relational store of prisma/schema.prisma.                      *)
(*                                                                         *)
(* Every request handler is one action.  The store is the set of rows of   *)
(* each table; the store's constraints (unique keys, foreign keys with the *)
(* default RESTRICT action, "record not found" on update/delete) are part  *)
(* of the handler that issues the statement.  resp records what the last   *)
(* handler answered and which store statements it issued.                  *)
(***************************************************************************)
EXTENDS Integers, Sequences, FiniteSets, TLC

\* ---------------------------------------------------------------- bounds
NumUsers == 2
MaxJobs == 2
MaxSaved == 2
MaxSavedLifecycle == 1
MaxOpenPages == 2
MaxTotalPages == 14
MaxCreateJobCalls == 2

\* ------------------------------------------------------------- constants
Users == 1..NumUsers
NoUser == 0
None == 0
JobIds == 1..MaxJobs
SavedIds == 1..MaxSaved
CustomerIds == 1..(NumUsers + 1)

JobPostStatus == {"DRAFT", "ACTIVE", "EXPIRE"}

\* lib/jobListingPricing: the listing durations that have a pricing tier
jobListingPricing == {30, 60, 90}

WellFormedUrls == {"https://acme.io"}

\* ---------------------------------------------------------------- inputs
CompanyGood ==
  [name |-> "Acme", location |-> "Berlin", about |-> "We build things",
   logo |-> "logo.png", website |-> "https://acme.io"]

CompanyBad ==
  [name |-> "Acme", location |-> "Berlin", about |-> "We build things",
   logo |-> "logo.png", website |-> "acme"]

CompanyInputs == {CompanyGood, CompanyBad}

SeekerGood == [name |-> "Sam", about |-> "Ten years of work", resume |-> "cv.pdf"]

SeekerBad == [name |-> "S", about |-> "Ten years of work", resume |-> "cv.pdf"]

SeekerInputs == {SeekerGood, SeekerBad}

JobA ==
  [jobTitle |-> "Engineer", employmentType |-> "full-time", location |-> "Berlin",
   salaryFrom |-> 10, salaryTo |-> 20, jobDescription |-> "doc-a",
   listingDuration |-> 30, benefits |-> <<"401k">>,
   companyName |-> "Acme", companyLocation |-> "Berlin",
   companyAbout |-> "We build things", companyLogo |-> "logo.png",
   companyWebsite |-> "https://acme.io"]

JobB ==
  [jobTitle |-> "Designer", employmentType |-> "part-time", location |-> "Paris",
   salaryFrom |-> 30, salaryTo |-> 40, jobDescription |-> "doc-b",
   listingDuration |-> 60, benefits |-> <<"remote", "dental">>,
   companyName |-> "Acme", companyLocation |-> "Berlin",
   companyAbout |-> "We build things", companyLogo |-> "logo.png",
   companyWebsite |-> "https://acme.io"]

JobC == [JobB EXCEPT !.employmentType = "full-time"]

\* fails the schema: salaryFrom below the minimum of 1
JobBad == [JobA EXCEPT !.salaryFrom = 0]

\* passes the schema but its duration has no pricing tier
JobNoTier == [JobB EXCEPT !.listingDuration = 45]

JobInputs == {JobA, JobB, JobBad, JobNoTier}

\* ----------------------------------------------------------------- state
VARIABLES
  user,              \* User rows: id -> fields
  company,           \* Company rows
  jobSeeker,         \* JobSeeker rows
  jobPost,           \* JobPost rows
  savedJobPost,      \* SavedJobPost rows
  nextJobId,         \* stands for the fresh uuid of the next JobPost
  nextSavedId,       \* stands for the fresh uuid of the next SavedJobPost
  inngestEvents,     \* events submitted to the scheduler, in order
  expirationFired,   \* jobs whose scheduled expiration task has run
  stripeCustomers,   \* number of payment customers created (ids 1..n)
  checkoutSessions,  \* checkout sessions created at the payment processor
  onboardingPages,   \* per user, the onboarding pages open in a browser
  createJobCalls,    \* createJob requests in flight between two awaits
  resp               \* outcome of the last handler

vars == <<user, company, jobSeeker, jobPost, savedJobPost, nextJobId,
          nextSavedId, inngestEvents, expirationFired, stripeCustomers,
          checkoutSessions, onboardingPages, createJobCalls, resp>>

store == <<user, company, jobSeeker, jobPost, savedJobPost>>

external == <<inngestEvents, stripeCustomers, checkoutSessions>>

clients == <<onboardingPages, createJobCalls>>

\* --------------------------------------------------------------- helpers
\* What the last handler did.  outcome: "ok", "redirect:<path>",
\* "throw:<error>" or "response" (then status and body are the HTTP
\* response); arg: the job or saved-record id the request named; customer:
\* the customer reference of a verified webhook event; queries: the store
\* statements issued; revalidated: the job whose detail view was
\* invalidated; before: the SavedJobPost rows before a successful save;
\* redelivery: the webhook event is the one the previous handler answered
\* with 200; undoesSave: the record unsaved is the one the previous
\* handler saved.
Resp(op, u, arg, outcome, queries) ==
  [op |-> op, user |-> u, arg |-> arg, customer |-> None,
   outcome |-> outcome, queries |-> queries,
   status |-> 0, body |-> "", revalidated |-> None, before |-> {},
   redelivery |-> FALSE, undoesSave |-> FALSE]

HttpResp(arg, customer, status, body, queries) ==
  [op |-> "POST", user |-> NoUser, arg |-> arg, customer |-> customer,
   outcome |-> "response", queries |-> queries,
   status |-> status, body |-> body, revalidated |-> None, before |-> {},
   redelivery |-> FALSE, undoesSave |-> FALSE]

reqUserAnonymous(u) == TRUE

\* reqUser: a request without a session user is redirected to /login
reqUser(u) == u # NoUser

JobRow(id, companyId, d, status, createdAt) ==
  [id |-> id, companyId |-> companyId, jobTitle |-> d.jobTitle,
   employmentType |-> d.employmentType, location |-> d.location,
   salaryFrom |-> d.salaryFrom, salaryTo |-> d.salaryTo,
   jobDescription |-> d.jobDescription,
   listingDuration |-> d.listingDuration, benefits |-> d.benefits,
   status |-> status, createdAt |-> createdAt]

JobById(j) == {r \in jobPost : r.id = j}

OwnerOfCompany(cid) == {c.userId : c \in {x \in company : x.id = cid}}

OwnedJobByIdOnly(j, u) == JobById(j)

\* where: { id: jobId, Company: { userId: userId } }
OwnedJob(j, u) ==
  {r \in jobPost : r.id = j /\ u \in OwnerOfCompany(r.companyId)}

DefaultStatusActive == "ACTIVE"

\* JobPost.status @default(DRAFT): createJob passes no status
DefaultStatus == "DRAFT"

PairTakenNoUnique(u, j) == FALSE

\* @@unique([userId, jobPostId]) on SavedJobPost
PairTaken(u, j) == \E s \in savedJobPost : s.userId = u /\ s.jobPostId = j

DeleteRestrictedNoForeignKey(j) == FALSE

\* SavedJobPost.jobPostId references JobPost.id with no onDelete action:
\* the default for a required relation restricts the delete
DeleteRestricted(j) == \E s \in savedJobPost : s.jobPostId = j

SavedHitByIdOnly(sid, u) == {s \in savedJobPost : s.id = sid}

\* where: { id: savedJobPostId, userId: user.id }
SavedHit(sid, u) == {s \in savedJobPost : s.id = sid /\ s.userId = u}

\* Company.id: one uuid per company; a user never has more than one
CompanyIdOf(u) == 10 + u

CompanyOfUserAny(u) == company

\* prisma.company.findUnique({ where: { userId: user.id } })
CompanyOfUser(u) == {c \in company : c.userId = u}

companySchema(d) ==
  /\ Len(d.name) >= 2
  /\ Len(d.location) >= 1
  /\ Len(d.about) >= 10
  /\ Len(d.logo) >= 1
  /\ d.website \in WellFormedUrls

jobSeekerSchema(d) ==
  /\ Len(d.name) >= 2
  /\ Len(d.about) >= 10
  /\ Len(d.resume) >= 1

jobSchema(d) ==
  /\ Len(d.jobTitle) >= 2
  /\ Len(d.employmentType) >= 1
  /\ Len(d.location) >= 1
  /\ d.salaryFrom >= 1
  /\ d.salaryTo >= 1
  /\ Len(d.jobDescription) >= 1
  /\ d.listingDuration >= 1
  /\ \A i \in 1..Len(d.benefits) : Len(d.benefits[i]) >= 1
  /\ Len(d.companyName) >= 2
  /\ Len(d.companyLocation) >= 1
  /\ Len(d.companyAbout) >= 10
  /\ Len(d.companyLogo) >= 1
  /\ d.companyWebsite \in WellFormedUrls

\* ------------------------------------------------------------------ init
Init ==
  /\ user = [u \in Users |->
               [stripeCustomerId |-> None, onBoardingCompleted |-> FALSE,
                userType |-> "NONE"]]
  /\ company = {}
  /\ jobSeeker = {}
  /\ jobPost = {}
  /\ savedJobPost = {}
  /\ nextJobId = 1
  /\ nextSavedId = 1
  /\ inngestEvents = <<>>
  /\ expirationFired = {}
  /\ stripeCustomers = 0
  /\ checkoutSessions = {}
  /\ onboardingPages = [u \in Users |-> 0]
  /\ createJobCalls = {}
  /\ resp = Resp("init", NoUser, None, "ok", <<>>)

\* ------------------------------------------------------------ onboarding
\* return redirect("/") of a form's server action: the onboarding page
\* the form was submitted from, if the request came from one, is left
FormLeft(u) ==
  [onboardingPages EXCEPT ![u] = IF @ > 0 THEN @ - 1 ELSE 0]

createCompany(u, denied, d) ==
  /\ IF ~reqUser(u)
       THEN /\ resp' = Resp("createCompany", u, None, "redirect:/login", <<>>)
            /\ UNCHANGED <<user, company, onboardingPages>>
     ELSE IF denied
       THEN /\ resp' = Resp("createCompany", u, None, "throw:Forbidden", <<>>)
            /\ UNCHANGED <<user, company, onboardingPages>>
     ELSE IF ~companySchema(d)
       THEN /\ resp' = Resp("createCompany", u, None, "throw:ZodError", <<>>)
            /\ UNCHANGED <<user, company, onboardingPages>>
     ELSE IF CompanyOfUser(u) # {}
       THEN \* Company.userId is unique: the nested create fails, the update rolls back
            /\ resp' = Resp("createCompany", u, None, "throw:P2002",
                            <<"user.update">>)
            /\ UNCHANGED <<user, company, onboardingPages>>
     ELSE /\ user' = [user EXCEPT ![u].onBoardingCompleted = TRUE,
                                  ![u].userType = "COMPANY"]
          /\ company' = company \cup
                          {[id |-> CompanyIdOf(u), userId |-> u, name |-> d.name]}
          /\ onboardingPages' = FormLeft(u)
          /\ resp' = Resp("createCompany", u, None, "redirect:/",
                          <<"user.update">>)
  /\ UNCHANGED <<jobPost, savedJobPost, nextJobId, nextSavedId, external,
                 expirationFired, jobSeeker, createJobCalls>>

createJobSeeker(u, denied, d) ==
  /\ IF ~reqUser(u)
       THEN /\ resp' = Resp("createJobSeeker", u, None, "redirect:/login", <<>>)
            /\ UNCHANGED <<user, jobSeeker, onboardingPages>>
     ELSE IF denied
       THEN /\ resp' = Resp("createJobSeeker", u, None, "throw:Forbidden", <<>>)
            /\ UNCHANGED <<user, jobSeeker, onboardingPages>>
     ELSE IF ~jobSeekerSchema(d)
       THEN /\ resp' = Resp("createJobSeeker", u, None, "throw:ZodError", <<>>)
            /\ UNCHANGED <<user, jobSeeker, onboardingPages>>
     ELSE IF \E s \in jobSeeker : s.userId = u
       THEN /\ resp' = Resp("createJobSeeker", u, None, "throw:P2002",
                            <<"user.update">>)
            /\ UNCHANGED <<user, jobSeeker, onboardingPages>>
     ELSE /\ user' = [user EXCEPT ![u].onBoardingCompleted = TRUE,
                                  ![u].userType = "JOB_SEEKER"]
          /\ jobSeeker' = jobSeeker \cup {[id |-> 20 + u, userId |-> u]}
          /\ onboardingPages' = FormLeft(u)
          /\ resp' = Resp("createJobSeeker", u, None, "redirect:/",
                          <<"user.update">>)
  /\ UNCHANGED <<jobPost, savedJobPost, nextJobId, nextSavedId, external,
                 expirationFired, company, createJobCalls>>

\* The onboarding page: it renders the onboarding form unless the user's
\* onboarding is completed; resp.arg is the number of pages the user then
\* has open.
OnBoardingPage(u) ==
  /\ IF ~reqUser(u)
       THEN /\ resp' = Resp("OnBoardingPage", u, None, "redirect:/login", <<>>)
            /\ UNCHANGED onboardingPages
     ELSE IF user[u].onBoardingCompleted = TRUE
       THEN /\ resp' = Resp("OnBoardingPage", u, onboardingPages[u],
                            "redirect:/", <<"user.findUnique">>)
            /\ UNCHANGED onboardingPages
     ELSE /\ onboardingPages[u] < MaxOpenPages
          /\ onboardingPages' = [onboardingPages EXCEPT ![u] = @ + 1]
          /\ resp' = Resp("OnBoardingPage", u, onboardingPages[u] + 1,
                          "render:OnBoardingForm", <<"user.findUnique">>)
  /\ UNCHANGED <<store, nextJobId, nextSavedId, external, expirationFired,
                 createJobCalls>>

\* --------------------------------------------------------- job lifecycle
EditedRowResetsStatus(r, d) ==
  JobRow(r.id, r.companyId, d, DefaultStatus, r.createdAt)

\* data: { ...the eight form fields }: status, owner and id are kept
EditedRow(r, d) == JobRow(r.id, r.companyId, d, r.status, r.createdAt)

JobCreatedEventFixedDays(j, d) ==
  [name |-> "job/created", jobId |-> j, expirationDays |-> 30]

\* inngest.send({ name: "job/created", data: { jobId, expirationDays } })
JobCreatedEvent(j, d) ==
  [name |-> "job/created", jobId |-> j, expirationDays |-> d.listingDuration]

createJob(u, d) ==
  /\ IF ~reqUser(u)
       THEN /\ resp' = Resp("createJob", u, None, "redirect:/login", <<>>)
            /\ UNCHANGED <<user, jobPost, nextJobId, external>>
     ELSE IF ~jobSchema(d)
       THEN /\ resp' = Resp("createJob", u, None, "throw:ZodError", <<>>)
            /\ UNCHANGED <<user, jobPost, nextJobId, external>>
     ELSE IF CompanyOfUser(u) = {}
       THEN /\ resp' = Resp("createJob", u, None, "redirect:/",
                            <<"company.findUnique">>)
            /\ UNCHANGED <<user, jobPost, nextJobId, external>>
     ELSE
       LET c == CHOOSE x \in CompanyOfUser(u) : TRUE
           hasCustomer == user[u].stripeCustomerId # None
           customerId == IF hasCustomer THEN user[u].stripeCustomerId
                         ELSE stripeCustomers + 1
           q1 == IF hasCustomer THEN <<"company.findUnique">>
                 ELSE <<"company.findUnique", "user.update">>
           tier == d.listingDuration \in jobListingPricing
       IN
       /\ nextJobId <= MaxJobs
       /\ stripeCustomers' = IF hasCustomer THEN stripeCustomers
                             ELSE stripeCustomers + 1
       /\ user' = [user EXCEPT ![u].stripeCustomerId = customerId]
       /\ jobPost' = jobPost \cup
                       {JobRow(nextJobId, c.id, d, DefaultStatus, nextJobId)}
       /\ nextJobId' = nextJobId + 1
       /\ inngestEvents' = Append(inngestEvents,
                                  JobCreatedEvent(nextJobId, d))
       /\ IF tier
            THEN /\ checkoutSessions' = checkoutSessions \cup
                       {[customer |-> customerId, jobId |-> nextJobId]}
                 /\ resp' = Resp("createJob", u, nextJobId,
                                 "redirect:checkout",
                                 Append(q1, "jobPost.create"))
            ELSE /\ checkoutSessions' = checkoutSessions
                 /\ resp' = Resp("createJob", u, nextJobId,
                                 "throw:Invalid listing duration selected",
                                 Append(q1, "jobPost.create"))
  /\ UNCHANGED <<company, jobSeeker, savedJobPost, nextSavedId,
                 expirationFired, clients>>

\* ------------------------------------------- createJob, await by await
\* createJob is an async function: each await is a point where another
\* request of the same or another user can run.  The three actions below
\* are the same handler cut at two of its awaits; a request in flight is a
\* record of createJobCalls holding the handler's local variables.
FreeCallIds == {k \in 1..MaxCreateJobCalls :
                  \A call \in createJobCalls : call.id # k}

\* reqUser, jobSchema.parse, prisma.company.findUnique with the user's
\* stripeCustomerId, the early returns, let stripeCustomerId = ...
createJobBegin(u, d) ==
  /\ IF ~reqUser(u)
       THEN /\ resp' = Resp("createJob", u, None, "redirect:/login", <<>>)
            /\ UNCHANGED createJobCalls
     ELSE IF ~jobSchema(d)
       THEN /\ resp' = Resp("createJob", u, None, "throw:ZodError", <<>>)
            /\ UNCHANGED createJobCalls
     ELSE IF CompanyOfUser(u) = {}
       THEN /\ resp' = Resp("createJob", u, None, "redirect:/",
                            <<"company.findUnique">>)
            /\ UNCHANGED createJobCalls
     ELSE /\ FreeCallIds # {}
          /\ createJobCalls' = createJobCalls \cup
               {[id |-> CHOOSE k \in FreeCallIds : TRUE,
                 user |-> u,
                 data |-> d,
                 companyId |-> (CHOOSE c \in CompanyOfUser(u) : TRUE).id,
                 stripeCustomerId |-> user[u].stripeCustomerId,
                 queries |-> <<"company.findUnique">>]}
          /\ UNCHANGED resp
  /\ UNCHANGED <<store, nextJobId, nextSavedId, external, expirationFired,
                 onboardingPages>>

\* if (!stripeCustomerId) { stripe.customers.create; stripeCustomerId =
\* customer.id; prisma.user.update({ where: { id }, data: {
\* stripeCustomerId } }) }: the test is on the value read by findUnique
createJobCustomer(call) ==
  /\ call \in createJobCalls
  /\ call.stripeCustomerId = None
  /\ stripeCustomers' = stripeCustomers + 1
  /\ user' = [user EXCEPT ![call.user].stripeCustomerId = stripeCustomers + 1]
  /\ createJobCalls' = (createJobCalls \ {call}) \cup
       {[call EXCEPT !.stripeCustomerId = stripeCustomers + 1,
                     !.queries = Append(@, "user.update")]}
  /\ UNCHANGED <<company, jobSeeker, jobPost, savedJobPost, nextJobId,
                 nextSavedId, inngestEvents, checkoutSessions,
                 expirationFired, onboardingPages, resp>>

\* prisma.jobPost.create, inngest.send, the pricing tier,
\* stripe.checkout.sessions.create({ customer: stripeCustomerId, ... })
\* with the handler's local stripeCustomerId, redirect(session.url)
createJobFinish(call) ==
  /\ call \in createJobCalls
  /\ call.stripeCustomerId # None
  /\ nextJobId <= MaxJobs
  /\ jobPost' = jobPost \cup
       {JobRow(nextJobId, call.companyId, call.data, DefaultStatus, nextJobId)}
  /\ nextJobId' = nextJobId + 1
  /\ inngestEvents' = Append(inngestEvents,
                             JobCreatedEvent(nextJobId, call.data))
  /\ IF call.data.listingDuration \in jobListingPricing
       THEN /\ checkoutSessions' = checkoutSessions \cup
                  {[customer |-> call.stripeCustomerId, jobId |-> nextJobId]}
            /\ resp' = Resp("createJob", call.user, nextJobId,
                            "redirect:checkout",
                            Append(call.queries, "jobPost.create"))
       ELSE /\ checkoutSessions' = checkoutSessions
            /\ resp' = Resp("createJob", call.user, nextJobId,
                            "throw:Invalid listing duration selected",
                            Append(call.queries, "jobPost.create"))
  /\ createJobCalls' = createJobCalls \ {call}
  /\ UNCHANGED <<user, company, jobSeeker, savedJobPost, nextSavedId,
                 stripeCustomers, expirationFired, onboardingPages>>

editJobPost(u, denied, d, j) ==
  /\ IF ~reqUser(u)
       THEN /\ resp' = Resp("editJobPost", u, j, "redirect:/login", <<>>)
            /\ UNCHANGED jobPost
     ELSE IF denied
       THEN /\ resp' = Resp("editJobPost", u, j, "throw:Forbidden", <<>>)
            /\ UNCHANGED jobPost
     ELSE IF ~jobSchema(d)
       THEN /\ resp' = Resp("editJobPost", u, j, "throw:ZodError", <<>>)
            /\ UNCHANGED jobPost
     ELSE IF OwnedJob(j, u) = {}
       THEN /\ resp' = Resp("editJobPost", u, j, "throw:P2025",
                            <<"jobPost.update">>)
            /\ UNCHANGED jobPost
     ELSE LET r == CHOOSE x \in OwnedJob(j, u) : TRUE IN
          /\ jobPost' = (jobPost \ {r}) \cup {EditedRow(r, d)}
          /\ resp' = Resp("editJobPost", u, j, "redirect:/my-jobs",
                          <<"jobPost.update">>)
  /\ UNCHANGED <<user, company, jobSeeker, savedJobPost, nextJobId,
                 nextSavedId, external, expirationFired, clients>>

deleteJobPost(u, denied, j) ==
  /\ IF ~reqUser(u)
       THEN /\ resp' = Resp("deleteJobPost", u, j, "redirect:/login", <<>>)
            /\ UNCHANGED <<jobPost, inngestEvents>>
     ELSE IF denied
       THEN /\ resp' = Resp("deleteJobPost", u, j, "throw:Forbidden", <<>>)
            /\ UNCHANGED <<jobPost, inngestEvents>>
     ELSE IF OwnedJob(j, u) = {}
       THEN /\ resp' = Resp("deleteJobPost", u, j, "throw:P2025",
                            <<"jobPost.delete">>)
            /\ UNCHANGED <<jobPost, inngestEvents>>
     ELSE IF DeleteRestricted(j)
       THEN /\ resp' = Resp("deleteJobPost", u, j, "throw:P2003",
                            <<"jobPost.delete">>)
            /\ UNCHANGED <<jobPost, inngestEvents>>
     ELSE /\ jobPost' = jobPost \ OwnedJob(j, u)
          /\ inngestEvents' = Append(inngestEvents,
                                     [name |-> "job/cancel.expiration",
                                      jobId |-> j, expirationDays |-> 0])
          /\ resp' = Resp("deleteJobPost", u, j, "redirect:/my-jobs",
                          <<"jobPost.delete">>)
  /\ UNCHANGED <<user, company, jobSeeker, savedJobPost, nextJobId,
                 nextSavedId, stripeCustomers, checkoutSessions,
                 expirationFired, clients>>

\* ------------------------------------------------------------- favorites
saveJobPost(u, denied, j) ==
  /\ IF ~reqUser(u)
       THEN /\ resp' = Resp("saveJobPost", u, j, "redirect:/login", <<>>)
            /\ UNCHANGED <<savedJobPost, nextSavedId>>
     ELSE IF denied
       THEN /\ resp' = Resp("saveJobPost", u, j, "throw:Forbidden", <<>>)
            /\ UNCHANGED <<savedJobPost, nextSavedId>>
     ELSE IF PairTaken(u, j)
       THEN /\ resp' = Resp("saveJobPost", u, j, "throw:P2002",
                            <<"savedJobPost.create">>)
            /\ UNCHANGED <<savedJobPost, nextSavedId>>
     ELSE IF JobById(j) = {}
       THEN \* foreign key jobPostId -> JobPost.id
            /\ resp' = Resp("saveJobPost", u, j, "throw:P2003",
                            <<"savedJobPost.create">>)
            /\ UNCHANGED <<savedJobPost, nextSavedId>>
     ELSE /\ nextSavedId <= MaxSaved
          /\ savedJobPost' = savedJobPost \cup
                {[id |-> nextSavedId, jobPostId |-> j, userId |-> u]}
          /\ nextSavedId' = nextSavedId + 1
          /\ resp' = [Resp("saveJobPost", u, j, "ok",
                           <<"savedJobPost.create">>)
                      EXCEPT !.revalidated = j, !.before = savedJobPost]
  /\ UNCHANGED <<user, company, jobSeeker, jobPost, nextJobId, external,
                 expirationFired, clients>>

unSaveJobPost(u, denied, sid) ==
  /\ IF ~reqUser(u)
       THEN /\ resp' = Resp("unSaveJobPost", u, sid, "redirect:/login", <<>>)
            /\ UNCHANGED savedJobPost
     ELSE IF denied
       THEN /\ resp' = Resp("unSaveJobPost", u, sid, "throw:Forbidden", <<>>)
            /\ UNCHANGED savedJobPost
     ELSE LET hit == SavedHit(sid, u) IN
          IF hit = {}
            THEN /\ resp' = Resp("unSaveJobPost", u, sid, "throw:P2025",
                                 <<"savedJobPost.delete">>)
                 /\ UNCHANGED savedJobPost
          ELSE /\ savedJobPost' = savedJobPost \ hit
               /\ resp' = [Resp("unSaveJobPost", u, sid, "ok",
                                <<"savedJobPost.delete">>)
                           EXCEPT !.revalidated =
                                    (CHOOSE s \in hit : TRUE).jobPostId,
                                  !.undoesSave =
                                    (/\ resp.op = "saveJobPost"
                                     /\ resp.outcome = "ok"
                                     /\ hit \cap resp.before = {})]
  /\ UNCHANGED <<user, company, jobSeeker, jobPost, nextJobId, nextSavedId,
                 external, expirationFired, clients>>

\* --------------------------------------------------------------- webhook
CheckoutCompleted == "checkout.session.completed"

EventTypes == {CheckoutCompleted, "payment_intent.succeeded"}

constructEventUnverified(sigOk) == TRUE

\* stripe.webhooks.constructEvent(body, sig, secret): throws unless the
\* signature verifies
constructEvent(sigOk) == sigOk

UserOfCustomerById(c) == {u \in Users : u = c}

\* prisma.user.findUnique({ where: { stripeCustomerId: customerId } })
UserOfCustomer(c) == {u \in Users : user[u].stripeCustomerId = c}

WebhookMatchByIdOnly(j, u) == JobById(j)

\* where: { id: jobId, companyId: company?.Company?.id }; an undefined
\* companyId is no condition at all
WebhookMatch(j, u) ==
  IF CompanyOfUser(u) = {}
    THEN JobById(j)
    ELSE {r \in jobPost :
            r.id = j /\ r.companyId = (CHOOSE c \in CompanyOfUser(u) : TRUE).id}

POST(sigOk, type, j, c) ==
  /\ IF ~constructEvent(sigOk)
       THEN /\ resp' = HttpResp(None, None, 400, "Webhook Error", <<>>)
            /\ UNCHANGED jobPost
     ELSE IF type # CheckoutCompleted
       THEN /\ resp' = HttpResp(None, None, 200, "", <<>>)
            /\ UNCHANGED jobPost
     ELSE IF j = None
       THEN /\ resp' = HttpResp(j, c, 400, "no job id found", <<>>)
            /\ UNCHANGED jobPost
     ELSE IF UserOfCustomer(c) = {}
       THEN /\ resp' = HttpResp(j, c, 400, "no company found for the user",
                                <<"user.findUnique">>)
            /\ UNCHANGED jobPost
     ELSE LET u == CHOOSE x \in UserOfCustomer(c) : TRUE
              hit == WebhookMatch(j, u)
          IN
          IF hit = {}
            THEN \* record to update not found: the handler throws
                 /\ resp' = [HttpResp(j, c, 500, "",
                                      <<"user.findUnique", "jobPost.update">>)
                             EXCEPT !.outcome = "throw:P2025"]
                 /\ UNCHANGED jobPost
          ELSE /\ jobPost' = (jobPost \ hit) \cup
                               {[r EXCEPT !.status = "ACTIVE"] : r \in hit}
               /\ resp' = [HttpResp(j, c, 200, "",
                                    <<"user.findUnique", "jobPost.update">>)
                           EXCEPT !.redelivery =
                             (/\ resp.op = "POST" /\ resp.status = 200
                              /\ resp.arg = j /\ resp.customer = c)]
  /\ UNCHANGED <<user, company, jobSeeker, savedJobPost, nextJobId,
                 nextSavedId, external, expirationFired, clients>>

\* ------------------------------------------------- scheduled expiration
\* The task scheduled by the "job/created" event: it fires once, after the
\* listing duration, unless a "job/cancel.expiration" event for the same job
\* cancelled it, and sets the job's status to EXPIRE.
ExpirationPending(j) ==
  /\ j \notin expirationFired
  /\ \E i \in 1..Len(inngestEvents) :
       inngestEvents[i].name = "job/created" /\ inngestEvents[i].jobId = j
  /\ ~\E i \in 1..Len(inngestEvents) :
       inngestEvents[i].name = "job/cancel.expiration" /\ inngestEvents[i].jobId = j

ExpireJob(j) ==
  /\ ExpirationPending(j)
  /\ JobById(j) # {}
  /\ expirationFired' = expirationFired \cup {j}
  /\ jobPost' = (jobPost \ JobById(j)) \cup
                  {[r EXCEPT !.status = "EXPIRE"] : r \in JobById(j)}
  /\ resp' = Resp("ExpireJob", NoUser, j, "ok", <<"jobPost.update">>)
  /\ UNCHANGED <<user, company, jobSeeker, savedJobPost, nextJobId,
                 nextSavedId, external, clients>>

\* ----------------------------------------------------------------- views
RECURSIVE OrderByCreatedAtDesc(_)
OrderByCreatedAtDesc(S) ==
  IF S = {} THEN <<>>
  ELSE LET newest == CHOOSE r \in S : \A x \in S : x.createdAt <= r.createdAt
       IN <<newest>> \o OrderByCreatedAtDesc(S \ {newest})

Ceil(a, b) == (a + b - 1) \div b

TypeConditionIgnored(r, jobTypes) == TRUE

\* ...(jobTypes.length > 0 && { employmentType: { in: jobTypes } })
TypeCondition(r, jobTypes) ==
  jobTypes # {} => r.employmentType \in jobTypes

LocationConditionWorldwideLiteral(r, location) ==
  location # "" => r.location = location

\* ...(location && location !== "worldwide" && { location: location })
LocationCondition(r, location) ==
  (location # "" /\ location # "worldwide") => r.location = location

\* the where clause of the listing query
ListingWhere(jobTypes, location) ==
  {r \in jobPost :
     /\ r.status = "ACTIVE"
     /\ TypeCondition(r, jobTypes)
     /\ LocationCondition(r, location)}

CountWhereFiltered(jobTypes, location) == ListingWhere(jobTypes, location)

\* the where clause of the count query: { status: "ACTIVE" }, whatever
\* the filters of the listing query are
CountWhere(jobTypes, location) == {r \in jobPost : r.status = "ACTIVE"}

TakeSkipNoSkip(all, skip, take) ==
  SubSeq(all, 1, IF take < Len(all) THEN take ELSE Len(all))

\* take: pageSize, skip: skip on the ordered rows
TakeSkip(all, skip, take) ==
  SubSeq(all, skip + 1, IF skip + take < Len(all) THEN skip + take
                        ELSE Len(all))

getData(page, pageSize, jobTypes, location) ==
  LET skip == (page - 1) * pageSize
      all == OrderByCreatedAtDesc(ListingWhere(jobTypes, location))
      totalCount == Cardinality(CountWhere(jobTypes, location))
  IN [jobs |-> TakeSkip(all, skip, pageSize),
      totalPages |-> Ceil(totalCount, pageSize)]

\* jobData is the matching row, or the empty set where the page answers 404
getJob(j, u) ==
  [jobData |-> {r \in jobPost : r.status = "ACTIVE" /\ r.id = j},
   savedJob |-> {s \in savedJobPost : s.userId = u /\ s.jobPostId = j}]

getFavorites(u) ==
  {r \in jobPost :
     \E s \in savedJobPost : s.userId = u /\ s.jobPostId = r.id}

\* ---------------------------------------------------------- listing page
\* A query parameter is absent or has a value: the characters of the page
\* parameter, the type names and commas of the jobTypes parameter, the
\* location string.
Undefined == [present |-> FALSE]

Param(v) == [present |-> TRUE, value |-> v]

\* pageSize: 2, the page size the listing page passes
PageSize == 2

Digits == <<"0", "1", "2", "3", "4", "5", "6", "7", "8", "9">>

IsDigit(ch) == \E i \in 1..10 : Digits[i] = ch

DigitValue(ch) == (CHOOSE i \in 1..10 : Digits[i] = ch) - 1

RECURSIVE DigitsValue(_, _)
DigitsValue(s, acc) ==
  IF s = <<>> THEN acc
  ELSE DigitsValue(Tail(s), 10 * acc + DigitValue(Head(s)))

AllDigits(s) == s # <<>> /\ \A i \in 1..Len(s) : IsDigit(s[i])

NaN == [nan |-> TRUE, val |-> 0]

\* Number(x) on an absent value, the empty string, and signed or unsigned
\* runs of decimal digits; anything else is not a number
Number(x) ==
  IF ~x.present THEN NaN
  ELSE LET v == x.value IN
    IF v = <<>> THEN [nan |-> FALSE, val |-> 0]
    ELSE IF AllDigits(v) THEN [nan |-> FALSE, val |-> DigitsValue(v, 0)]
    ELSE IF Head(v) = "-" /\ AllDigits(Tail(v))
      THEN [nan |-> FALSE, val |-> 0 - DigitsValue(Tail(v), 0)]
    ELSE IF Head(v) = "+" /\ AllDigits(Tail(v))
      THEN [nan |-> FALSE, val |-> DigitsValue(Tail(v), 0)]
    ELSE NaN

\* Number(page) || 1: NaN and 0 are the falsy numbers
CurrentPage(page) ==
  LET n == Number(page) IN IF n.nan \/ n.val = 0 THEN 1 ELSE n.val

\* x.split(","), for a parameter whose type names are separated by commas
RECURSIVE Split(_)
Split(x) ==
  IF x = <<>> THEN <<"">>
  ELSE IF Head(x) = "," THEN <<"">> \o Split(Tail(x))
  ELSE IF Len(x) = 1 THEN <<Head(x)>>
  ELSE <<Head(x)>> \o Split(Tail(Tail(x)))

\* jobTypes?.split(",") || [], as the set the "in" filter tests
JobTypesSplit(x) ==
  IF ~x.present THEN {}
  ELSE LET parts == Split(x.value) IN {parts[i] : i \in 1..Len(parts)}

\* location || ""
LocationMod(x) == IF ~x.present THEN "" ELSE x.value

\* The listing page: resp.arg is the page number handed to getData, the
\* outcome is what the page renders.  A negative skip is refused by the
\* store client or answered with no rows, depending on the client.
Home(page, jobTypes, location) ==
  /\ LET currentPage == CurrentPage(page)
         skip == (currentPage - 1) * PageSize
         q == <<"jobPost.findMany", "jobPost.count">>
     IN IF skip < 0
          THEN \E outcome \in {"render:EmptyState",
                                "throw:Invalid value for skip"} :
                 resp' = Resp("Home", NoUser, currentPage, outcome, q)
        ELSE LET jobs == getData(currentPage, PageSize,
                                 JobTypesSplit(jobTypes),
                                 LocationMod(location)).jobs
             IN resp' = Resp("Home", NoUser, currentPage,
                             IF Len(jobs) = 0 THEN "render:EmptyState"
                             ELSE "render:jobs", q)
  /\ UNCHANGED <<store, nextJobId, nextSavedId, external, expirationFired,
                 clients>>

\* ------------------------------------------------------------ pagination
\* items.push(null): the place of an ellipsis among the page numbers
Ellipsis == 0

NearStartOffByOne(currentPage) == currentPage <= 4

\* currentPage <= 3
NearStart(currentPage) == currentPage <= 3

\* currentPage >= totalPages - 2
NearEnd(currentPage, totalPages) == currentPage >= totalPages - 2

generatePaginationItems(currentPage, totalPages) ==
  IF totalPages <= 5 THEN [i \in 1..totalPages |-> i]
  ELSE IF NearStart(currentPage)
    THEN <<1, 2, 3, Ellipsis, totalPages>>
  ELSE IF NearEnd(currentPage, totalPages)
    THEN <<1, Ellipsis, totalPages - 2, totalPages - 1, totalPages>>
  ELSE <<1, Ellipsis, currentPage - 1, currentPage, currentPage + 1,
         Ellipsis, totalPages>>

\* The pagination control rendered for a page of the listing: resp.arg is
\* the current page, resp.totalPages and resp.items what it was given and
\* what it shows.
MainPagination(currentPage, totalPages) ==
  /\ resp' = Resp("MainPagination", NoUser, currentPage, "render:Pagination",
                  <<>>)
               @@ [totalPages |-> totalPages,
                   items |-> generatePaginationItems(currentPage, totalPages)]
  /\ UNCHANGED <<store, nextJobId, nextSavedId, external, expirationFired,
                 clients>>

\* ------------------------------------------------------------------ spec
\* The sessions of Spec, SpecFavorites and SpecListing are authenticated,
\* pass the bot protection and submit schema-valid forms; SpecRejects adds
\* the invalid forms and SpecAnonymous the requests without a session.
\*
\* Spec: the job lifecycle (creation, edit, delete, payment webhook,
\* expiration) with at most MaxSavedLifecycle saved records.
Next ==
  \/ \E u \in Users : createCompany(u, FALSE, CompanyGood)
  \/ \E u \in Users : createJob(u, JobA)
  \/ \E u \in Users, d \in {JobA, JobB}, j \in JobIds :
       editJobPost(u, FALSE, d, j)
  \/ \E u \in Users, j \in JobIds : deleteJobPost(u, FALSE, j)
  \/ \E u \in Users, j \in JobIds :
       nextSavedId <= MaxSavedLifecycle /\ saveJobPost(u, FALSE, j)
  \/ \E u \in Users, sid \in SavedIds : unSaveJobPost(u, FALSE, sid)
  \/ \E sigOk \in BOOLEAN, type \in EventTypes, j \in JobIds \cup {None},
        c \in CustomerIds : POST(sigOk, type, j, c)
  \/ \E j \in JobIds : ExpireJob(j)

Spec == Init /\ [][Next]_vars

\* SpecFavorites: the favorites relation under save, unsave, job creation,
\* job deletion and webhook deliveries, with up to MaxSaved saved records.
NextFavorites ==
  \/ \E u \in Users : createCompany(u, FALSE, CompanyGood)
  \/ \E u \in Users : createJob(u, JobA)
  \/ \E u \in Users, j \in JobIds : deleteJobPost(u, FALSE, j)
  \/ \E u \in Users, j \in JobIds : saveJobPost(u, FALSE, j)
  \/ \E u \in Users, sid \in SavedIds : unSaveJobPost(u, FALSE, sid)
  \/ \E j \in JobIds, c \in CustomerIds : POST(TRUE, CheckoutCompleted, j, c)

SpecFavorites == Init /\ [][NextFavorites]_vars

\* SpecListing: the listing page over the stores that company onboarding,
\* job creation, payment and expiration produce.
PageParams ==
  {Undefined, Param(<<>>), Param(<<"a">>), Param(<<"0">>), Param(<<"-", "1">>),
   Param(<<"1">>), Param(<<"2">>), Param(<<"3">>)}

JobTypesParams ==
  {Undefined, Param(<<>>), Param(<<"full-time">>), Param(<<"part-time">>),
   Param(<<"full-time", ",", "part-time">>)}

LocationParams ==
  {Undefined, Param("worldwide"), Param("Berlin"), Param("Paris")}

NextListing ==
  \/ \E u \in Users : createCompany(u, FALSE, CompanyGood)
  \/ \E u \in Users, d \in {JobA, JobB, JobC} : createJob(u, d)
  \/ \E j \in JobIds, c \in CustomerIds : POST(TRUE, CheckoutCompleted, j, c)
  \/ \E j \in JobIds : ExpireJob(j)
  \/ \E page \in PageParams, jobTypes \in JobTypesParams,
        location \in LocationParams : Home(page, jobTypes, location)

SpecListing == Init /\ [][NextListing]_vars

\* SpecRejects: onboarding, job creation and job edit by authenticated
\* sessions whose forms may fail their schema or name a listing duration
\* without a pricing tier.
NextRejects ==
  \/ \E u \in Users, d \in CompanyInputs : createCompany(u, FALSE, d)
  \/ \E u \in Users, d \in SeekerInputs : createJobSeeker(u, FALSE, d)
  \/ \E u \in Users, d \in JobInputs : createJob(u, d)
  \/ \E u \in Users, d \in {JobB, JobBad}, j \in JobIds :
       editJobPost(u, FALSE, d, j)

SpecRejects == Init /\ [][NextRejects]_vars

\* SpecAnonymous: every server action, invoked with and without an
\* authenticated session, with schema-valid forms.
Sessions == Users \cup {NoUser}

NextAnonymous ==
  \/ \E u \in Sessions : createCompany(u, FALSE, CompanyGood)
  \/ \E u \in Sessions : createJobSeeker(u, FALSE, SeekerGood)
  \/ \E u \in Sessions : createJob(u, JobA)
  \/ \E u \in Sessions, j \in JobIds : editJobPost(u, FALSE, JobB, j)
  \/ \E u \in Sessions, j \in JobIds : deleteJobPost(u, FALSE, j)
  \/ \E u \in Sessions, j \in JobIds :
       nextSavedId <= MaxSavedLifecycle /\ saveJobPost(u, FALSE, j)
  \/ \E u \in Sessions, sid \in SavedIds : unSaveJobPost(u, FALSE, sid)

SpecAnonymous == Init /\ [][NextAnonymous]_vars

\* SpecDenied: every server action by authenticated sessions with valid
\* forms, where the bot protection may deny the request.  createJob never
\* asks the protection service, so its requests have no decision.
NextDenied ==
  \/ \E u \in Users, denied \in BOOLEAN : createCompany(u, denied, CompanyGood)
  \/ \E u \in Users, denied \in BOOLEAN : createJobSeeker(u, denied, SeekerGood)
  \/ \E u \in Users : createJob(u, JobA)
  \/ \E u \in Users, denied \in BOOLEAN, j \in JobIds :
       editJobPost(u, denied, JobB, j)
  \/ \E u \in Users, denied \in BOOLEAN, j \in JobIds :
       deleteJobPost(u, denied, j)
  \/ \E u \in Users, denied \in BOOLEAN, j \in JobIds :
       nextSavedId <= MaxSavedLifecycle /\ saveJobPost(u, denied, j)
  \/ \E u \in Users, denied \in BOOLEAN, sid \in SavedIds :
       unSaveJobPost(u, denied, sid)

SpecDenied == Init /\ [][NextDenied]_vars

\* SpecOnboarding: the intended onboarding flow.  A user loads the
\* onboarding page and submits the company form or the job-seeker form from
\* an open page; a page whose form was accepted is left.
NextOnboarding ==
  \/ \E u \in Users : OnBoardingPage(u)
  \/ \E u \in Users, d \in CompanyInputs :
       onboardingPages[u] > 0 /\ createCompany(u, FALSE, d)
  \/ \E u \in Users, d \in SeekerInputs :
       onboardingPages[u] > 0 /\ createJobSeeker(u, FALSE, d)

SpecOnboarding == Init /\ [][NextOnboarding]_vars

\* SpecPagination: the pagination control on every page of every page
\* count up to MaxTotalPages.
NextPagination ==
  \E totalPages \in 1..MaxTotalPages :
    \E currentPage \in 1..totalPages :
      MainPagination(currentPage, totalPages)

SpecPagination == Init /\ [][NextPagination]_vars

\* SpecConcurrentCreate: createJob requests that overlap.  A user with a
\* company starts up to MaxCreateJobCalls requests, each advancing one
\* await at a time, and the payment service delivers the completion
\* webhook of any checkout session that was created.
NextConcurrentCreate ==
  \/ \E u \in Users : createCompany(u, FALSE, CompanyGood)
  \/ \E u \in Users : createJobBegin(u, JobA)
  \/ \E call \in createJobCalls : createJobCustomer(call)
  \/ \E call \in createJobCalls : createJobFinish(call)
  \/ \E s \in checkoutSessions :
       POST(TRUE, CheckoutCompleted, s.jobId, s.customer)

SpecConcurrentCreate == Init /\ [][NextConcurrentCreate]_vars

\* ================================================================ claims
\* inputs the browsing views are evaluated on
Pages == 1..(MaxJobs + 1)
PageSizes == 1..PageSize
TypeFilters == SUBSET {"full-time", "part-time"}
LocationFilters == {"", "worldwide", "Berlin", "Paris"}

CancelEvent(j) ==
  [name |-> "job/cancel.expiration", jobId |-> j, expirationDays |-> 0]

\* the companies owned by the user a customer reference belongs to
CompanyOfCustomer(c) ==
  {x \in company : \E u \in Users : user[u].stripeCustomerId = c /\ x.userId = u}

\* C1: every JobPost returned by the listing query, the job detail fetch or
\* the favorites fetch has status ACTIVE.
C1_ViewsShowOnlyActive ==
  /\ \A page \in Pages, T \in TypeFilters, L \in LocationFilters :
       LET jobs == getData(page, PageSize, T, L).jobs
       IN \A i \in 1..Len(jobs) : jobs[i].status = "ACTIVE"
  /\ \A j \in JobIds, u \in Users \cup {NoUser} :
       \A r \in getJob(j, u).jobData : r.status = "ACTIVE"
  /\ \A u \in Users : \A r \in getFavorites(u) : r.status = "ACTIVE"

\* C2: a JobPost row is ACTIVE after a step in which it was not ACTIVE
\* before (or did not exist) only if the step is the webhook answering 200
\* to an event that carries the job's id and the customer reference of the
\* user who owns the job's company; no other handler makes a job ACTIVE.
C2_ActiveOnlyByWebhook ==
  [][\A r2 \in jobPost' :
       (r2.status = "ACTIVE"
          /\ ~\E r \in jobPost : r.id = r2.id /\ r.status = "ACTIVE")
       => /\ resp'.op = "POST"
          /\ resp'.status = 200
          /\ resp'.arg = r2.id
          /\ resp'.customer # None
          /\ \E u \in Users :
               /\ user[u].stripeCustomerId = resp'.customer
               /\ u \in OwnerOfCompany(r2.companyId)]_vars

C2_Witness ==
  /\ resp.op = "POST"
  /\ resp.status = 200
  /\ ~resp.redelivery
  /\ \E r \in jobPost : r.id = resp.arg /\ r.status = "ACTIVE"
  /\ Cardinality(jobPost) = 2

\* C3: a verified checkout-completed event without a job id, or whose
\* customer reference belongs to no company, is answered 400 and changes no
\* JobPost.
C3_WebhookRejects ==
  [][resp'.op = "POST" =>
     \A j \in JobIds \cup {None}, c \in CustomerIds :
       ((j = None \/ CompanyOfCustomer(c) = {})
          /\ POST(TRUE, CheckoutCompleted, j, c))
       => (resp'.status = 400 /\ jobPost' = jobPost)]_vars

C3_Witness ==
  /\ resp.op = "POST"
  /\ resp.status = 400
  /\ resp.body = "no company found for the user"
  /\ \E r \in jobPost : r.id = resp.arg /\ r.status = "DRAFT"

\* C4: a webhook request whose signature does not verify is answered 400
\* and issues no store statement, whatever its event type and payload.
C4_BadSignature ==
  [][resp'.op = "POST" =>
     \A type \in EventTypes, j \in JobIds \cup {None}, c \in CustomerIds :
       POST(FALSE, type, j, c)
       => /\ resp'.status = 400
          /\ resp'.queries = <<>>
          /\ store' = store]_vars

C4_Witness ==
  /\ resp.op = "POST"
  /\ resp.status = 400
  /\ resp.body = "Webhook Error"
  /\ \E r \in jobPost :
       r.status = "DRAFT" /\ \E x \in CompanyOfCustomer(1) : x.id = r.companyId

\* C5 as stated: every verified checkout-completed event with a job id and
\* a customer reference of a company owner makes that job ACTIVE and is
\* answered 200 with an empty body.
C5_EveryEventActivates ==
  [][resp'.op = "POST" =>
     \A j \in JobIds, c \in CustomerIds :
       (CompanyOfCustomer(c) # {} /\ POST(TRUE, CheckoutCompleted, j, c))
       => /\ resp'.status = 200
          /\ resp'.body = ""
          /\ \E r \in jobPost' : r.id = j /\ r.status = "ACTIVE"]_vars

\* C5 amended: such an event, when a JobPost with its id belongs to the
\* customer's company, makes that job ACTIVE, changes nothing else and is
\* answered 200 with an empty body, and its immediate redelivery leaves the
\* store as it is; when no such JobPost exists the update finds no row, the
\* handler throws and the store is unchanged.
C5_EventActivatesMatchingJob ==
  [][resp'.op = "POST" =>
     \A j \in JobIds, c \in CustomerIds :
       (CompanyOfCustomer(c) # {} /\ POST(TRUE, CheckoutCompleted, j, c))
       => IF \E r \in jobPost, x \in CompanyOfCustomer(c) :
               r.id = j /\ r.companyId = x.id
            THEN /\ resp'.status = 200
                 /\ resp'.body = ""
                 /\ \E r \in jobPost :
                      /\ r.id = j
                      /\ jobPost' = (jobPost \ {r}) \cup
                                      {[r EXCEPT !.status = "ACTIVE"]}
                 /\ <<user, company, jobSeeker, savedJobPost>>' =
                      <<user, company, jobSeeker, savedJobPost>>
                 /\ (resp'.redelivery => jobPost' = jobPost)
            ELSE /\ resp'.outcome = "throw:P2025"
                 /\ store' = store]_vars

C5_Witness ==
  /\ resp.op = "POST"
  /\ resp.status = 200
  /\ resp.redelivery
  /\ \E r \in jobPost : r.id = resp.arg /\ r.status = "ACTIVE"

\* C6: editJobPost and deleteJobPost on an existing JobPost of another
\* user's company match zero rows, leave every JobPost as it is and submit
\* no cancellation event.
C6_OwnershipEnforced ==
  [][resp'.op \in {"editJobPost", "deleteJobPost"} =>
     \A u \in Users, j \in JobIds :
       (/\ \E r \in jobPost : r.id = j
        /\ \A r \in jobPost, x \in company :
             (r.id = j /\ x.id = r.companyId) => x.userId # u
        /\ \/ \E d \in {JobA, JobB} : editJobPost(u, FALSE, d, j)
           \/ deleteJobPost(u, FALSE, j))
       => /\ resp'.outcome = "throw:P2025"
          /\ jobPost' = jobPost
          /\ inngestEvents' = inngestEvents]_vars

C6_Witness ==
  /\ resp.op \in {"editJobPost", "deleteJobPost"}
  /\ resp.outcome = "throw:P2025"
  /\ CompanyOfUser(resp.user) # {}
  /\ \E r \in jobPost : r.id = resp.arg /\ r.status = "ACTIVE"

\* C7: a successful editJobPost replaces the eight form fields of the job
\* and keeps its status, owning company, id and creation time, every other
\* JobPost and every SavedJobPost.
C7_EditFrame ==
  [][resp'.op = "editJobPost" =>
     \A u \in Users, d \in {JobA, JobB}, j \in JobIds :
       (editJobPost(u, FALSE, d, j) /\ resp'.outcome = "redirect:/my-jobs")
       => \E r \in jobPost, r2 \in jobPost' :
            /\ r.id = j /\ r2.id = j
            /\ r2.jobTitle = d.jobTitle
            /\ r2.employmentType = d.employmentType
            /\ r2.location = d.location
            /\ r2.salaryFrom = d.salaryFrom
            /\ r2.salaryTo = d.salaryTo
            /\ r2.jobDescription = d.jobDescription
            /\ r2.listingDuration = d.listingDuration
            /\ r2.benefits = d.benefits
            /\ r2.status = r.status
            /\ r2.companyId = r.companyId
            /\ r2.createdAt = r.createdAt
            /\ jobPost' \ {r2} = jobPost \ {r}
            /\ savedJobPost' = savedJobPost
            /\ <<user, company>>' = <<user, company>>]_vars

C7_Witness ==
  /\ resp.op = "editJobPost"
  /\ resp.outcome = "redirect:/my-jobs"
  /\ Cardinality(jobPost) = 2
  /\ savedJobPost # {}
  /\ \E r \in jobPost :
       r.id = resp.arg /\ r.status = "EXPIRE" /\ r.jobTitle = JobB.jobTitle

\* C8: deleteJobPost by the owner of an existing JobPost removes the row
\* and submits one cancellation event carrying the job's id.
C8_OwnerDeleteRemoves ==
  [][resp'.op = "deleteJobPost" =>
     \A u \in Users, j \in JobIds :
       (/\ \E r \in jobPost, x \in company :
             r.id = j /\ x.id = r.companyId /\ x.userId = u
        /\ deleteJobPost(u, FALSE, j))
       => /\ ~\E r \in jobPost' : r.id = j
          /\ inngestEvents' = Append(inngestEvents, CancelEvent(j))]_vars

\* C9: every SavedJobPost row references an existing User and an existing
\* JobPost, and no two rows share a (userId, jobPostId) pair.
C9_SavedReferential ==
  /\ \A s \in savedJobPost :
       /\ s.userId \in DOMAIN user
       /\ \E r \in jobPost : r.id = s.jobPostId
  /\ \A s1, s2 \in savedJobPost :
       (s1.userId = s2.userId /\ s1.jobPostId = s2.jobPostId) => s1 = s2

C9_Witness ==
  /\ Cardinality(savedJobPost) = 2
  /\ resp.op = "deleteJobPost"
  /\ resp.outcome = "throw:P2003"

\* C10: unSaveJobPost of the record a saveJobPost has just created gives
\* back the SavedJobPost rows there were before the save; saveJobPost for a
\* pair that already has a record throws and adds no row.
C10_SaveUnsaveRoundTrip ==
  [][/\ resp'.op = "unSaveJobPost" =>
        \A u \in Users, sid \in SavedIds :
          (/\ resp.op = "saveJobPost"
           /\ resp.outcome = "ok"
           /\ resp.user = u
           /\ \E s \in savedJobPost \ resp.before : s.id = sid
           /\ unSaveJobPost(u, FALSE, sid))
          => (resp'.outcome = "ok" /\ savedJobPost' = resp.before)
     /\ resp'.op = "saveJobPost" =>
        \A u \in Users, j \in JobIds :
          (/\ \E s \in savedJobPost : s.userId = u /\ s.jobPostId = j
           /\ saveJobPost(u, FALSE, j))
          => (resp'.outcome = "throw:P2002" /\ savedJobPost' = savedJobPost)
    ]_vars

C10_Witness ==
  /\ resp.op = "unSaveJobPost"
  /\ resp.outcome = "ok"
  /\ resp.undoesSave
  /\ Cardinality(savedJobPost) = 1

\* C11: unSaveJobPost naming a SavedJobPost of another user throws, leaves
\* the SavedJobPost rows as they are and invalidates no view; a row that
\* disappears was removed by unSaveJobPost in a session of its own user.
C11_UnsaveOwnOnly ==
  [][/\ resp'.op = "unSaveJobPost" =>
        \A u \in Users, sid \in SavedIds :
          (/\ \E s \in savedJobPost : s.id = sid /\ s.userId # u
           /\ unSaveJobPost(u, FALSE, sid))
          => /\ resp'.outcome = "throw:P2025"
             /\ savedJobPost' = savedJobPost
             /\ resp'.revalidated = None
     /\ \A s \in savedJobPost \ savedJobPost' :
          resp'.op = "unSaveJobPost" /\ resp'.user = s.userId
    ]_vars

C11_Witness ==
  /\ resp.op = "unSaveJobPost"
  /\ resp.outcome = "throw:P2025"
  /\ \E s \in savedJobPost : s.id = resp.arg /\ s.userId # resp.user

ActiveJobs == {r \in jobPost : r.status = "ACTIVE"}

\* the rows of a sequence
Rows(q) == {q[i] : i \in 1..Len(q)}

\* C12: for every page p >= 1, page size s and filter combination, getData
\* returns at most s rows, the rows are the matching JobPosts at positions
\* (p-1)*s+1 .. p*s in descending order of creation time, and a page past
\* the last one is empty.
C12_PageOfMatching ==
  \A page \in Pages, s \in PageSizes, T \in TypeFilters, L \in LocationFilters :
    LET jobs == getData(page, s, T, L).jobs
        matching == ListingWhere(T, L)
        skip == (page - 1) * s
        left == Cardinality(matching) - skip
    IN /\ Len(jobs) <= s
       /\ Len(jobs) = (IF left <= 0 THEN 0 ELSE IF left < s THEN left ELSE s)
       /\ \A i \in 1..Len(jobs) :
            /\ jobs[i] \in matching
            /\ Cardinality({r \in matching : r.createdAt > jobs[i].createdAt})
                 = skip + i - 1

C12_Witness ==
  /\ Cardinality(ActiveJobs) = 2
  /\ resp.op = "Home"
  /\ resp.arg = 3
  /\ resp.outcome = "render:EmptyState"
  /\ Len(getData(2, 1, {}, "").jobs) = 1
  /\ Len(getData(1, 2, {}, "").jobs) = 2

\* C13: for every non-empty set T of employment types, every JobPost that
\* getData returns has a type in T, and the pages together hold every
\* ACTIVE JobPost whose type is in T and that passes the location filter.
C13_TypeFilter ==
  \A T \in TypeFilters \ {{}}, L \in LocationFilters, s \in PageSizes :
    LET returned == UNION {Rows(getData(page, s, T, L).jobs) : page \in Pages}
    IN /\ \A r \in returned : r.employmentType \in T
       /\ returned =
            {r \in ActiveJobs :
               /\ r.employmentType \in T
               /\ (L \in {"", "worldwide"} \/ r.location = L)}

C13_Witness ==
  /\ \E r1, r2 \in ActiveJobs :
       r1.employmentType = "full-time" /\ r2.employmentType = "part-time"
  /\ Len(getData(1, PageSize, {"part-time"}, "").jobs) = 1
  /\ Len(getData(1, PageSize, {"part-time", "full-time"}, "").jobs) = 2
  /\ resp.op = "Home"
  /\ resp.outcome = "render:jobs"

\* C14: for a location filter L other than "" and "worldwide" every
\* JobPost that getData returns has location L; for "" and "worldwide" the
\* pages together hold every ACTIVE JobPost that passes the type filter,
\* whatever its location.
C14_LocationFilter ==
  \A T \in TypeFilters, L \in LocationFilters, s \in PageSizes :
    LET returned == UNION {Rows(getData(page, s, T, L).jobs) : page \in Pages}
    IN IF L \in {"", "worldwide"}
         THEN returned =
                {r \in ActiveJobs : T = {} \/ r.employmentType \in T}
       ELSE \A r \in returned : r.location = L

C14_Witness ==
  /\ \E r1, r2 \in ActiveJobs :
       /\ r1.location = "Berlin" /\ r2.location = "Paris"
       /\ r1.employmentType = r2.employmentType
  /\ Len(getData(1, PageSize, {}, "Paris").jobs) = 1
  /\ Len(getData(1, PageSize, {}, "worldwide").jobs) = 2

\* C15: the totalPages of getData is the ceiling of the number of JobPosts
\* matching the status, type and location filters of the page, divided by
\* the page size.
C15_TotalPagesOfMatching ==
  \A T \in TypeFilters, L \in LocationFilters, s \in PageSizes :
    getData(1, s, T, L).totalPages = Ceil(Cardinality(ListingWhere(T, L)), s)

\* C16: the totalPages of getData is the ceiling of the number of ACTIVE
\* JobPosts divided by the page size, whatever the filters are, and so is
\* never below the number of pages that hold filtered rows.
C16_TotalPagesOfActive ==
  \A page \in Pages, T \in TypeFilters, L \in LocationFilters, s \in PageSizes :
    LET totalPages == getData(page, s, T, L).totalPages
    IN /\ totalPages = Ceil(Cardinality(ActiveJobs), s)
       /\ totalPages >= Ceil(Cardinality(ListingWhere(T, L)), s)
       /\ \A p \in Pages :
            Len(getData(p, s, T, L).jobs) > 0 => p <= totalPages

C16_Witness ==
  /\ Cardinality(ActiveJobs) = 2
  /\ \E T \in TypeFilters, L \in LocationFilters, s \in PageSizes :
       /\ ListingWhere(T, L) # {}
       /\ getData(1, s, T, L).totalPages
            > Ceil(Cardinality(ListingWhere(T, L)), s)
       /\ getData(getData(1, s, T, L).totalPages, s, T, L).jobs = <<>>

\* C17: whatever the page parameter is, the page number the listing page
\* hands to getData is a positive integer, 1 for an absent or non-numeric
\* parameter, and the skip computed from it is not negative.
C17_PageNumberPositive ==
  [][resp'.op = "Home" =>
     \A page \in PageParams, jobTypes \in JobTypesParams,
        location \in LocationParams :
       Home(page, jobTypes, location)
       => /\ resp'.arg >= 1
          /\ (Number(page).nan => resp'.arg = 1)
          /\ (resp'.arg - 1) * PageSize >= 0]_vars

\* C18: a createCompany, createJobSeeker, createJob or editJobPost request
\* whose form fails its schema, or for createJob names a listing duration
\* without a pricing tier, changes no row and submits no event.
C18_InvalidRejectedFirst ==
  [][resp'.op \in {"createCompany", "createJobSeeker", "createJob",
                   "editJobPost"} =>
     LET NoMutation == store' = store /\ inngestEvents' = inngestEvents IN
     \A u \in Users :
       /\ \A d \in CompanyInputs :
            (~companySchema(d) /\ createCompany(u, FALSE, d)) => NoMutation
       /\ \A d \in SeekerInputs :
            (~jobSeekerSchema(d) /\ createJobSeeker(u, FALSE, d)) => NoMutation
       /\ \A d \in JobInputs :
            ((~jobSchema(d) \/ d.listingDuration \notin jobListingPricing)
               /\ resp'.outcome # "redirect:/"
               /\ createJob(u, d)) => NoMutation
       /\ \A d \in {JobB, JobBad}, j \in JobIds :
            (~jobSchema(d) /\ editJobPost(u, FALSE, d, j)) => NoMutation]_vars

\* C19 as stated: createJob by an authenticated user who owns no Company
\* redirects to "/" and changes nothing.
C19_NoCompanyRedirects ==
  [][resp'.op = "createJob" =>
     \A u \in Users, d \in JobInputs :
       ((~\E c \in company : c.userId = u) /\ createJob(u, d))
       => /\ resp'.outcome = "redirect:/"
          /\ store' = store
          /\ external' = external]_vars

\* C19 amended: createJob with a schema-valid form by an authenticated
\* user who owns no Company redirects to "/"; with a form that fails the
\* schema it throws the validation error; either way no row is inserted or
\* changed, no payment customer or checkout session is created and no
\* event is submitted.
C19_NoCompanyNoEffect ==
  [][resp'.op = "createJob" =>
     \A u \in Users, d \in JobInputs :
       ((~\E c \in company : c.userId = u) /\ createJob(u, d))
       => /\ resp'.outcome =
               (IF jobSchema(d) THEN "redirect:/" ELSE "throw:ZodError")
          /\ store' = store
          /\ external' = external]_vars

C19_Witness ==
  /\ resp.op = "createJob"
  /\ resp.outcome = "redirect:/"
  /\ ~\E c \in company : c.userId = resp.user
  /\ company # {}
  /\ jobPost # {}

\* C20: each of the seven server actions, invoked without an authenticated
\* session, redirects to /login, issues no store statement, changes no row
\* and calls neither the payment processor nor the scheduler.
C20_AnonymousRedirected ==
  [][resp'.user = NoUser =>
     ((\/ createCompany(NoUser, FALSE, CompanyGood)
       \/ createJobSeeker(NoUser, FALSE, SeekerGood)
       \/ createJob(NoUser, JobA)
       \/ \E j \in JobIds :
            \/ editJobPost(NoUser, FALSE, JobB, j)
            \/ deleteJobPost(NoUser, FALSE, j)
            \/ saveJobPost(NoUser, FALSE, j)
       \/ \E sid \in SavedIds : unSaveJobPost(NoUser, FALSE, sid))
      => /\ resp'.outcome = "redirect:/login"
         /\ resp'.queries = <<>>
         /\ store' = store
         /\ external' = external)]_vars

C20_Witness ==
  /\ resp.user = NoUser
  /\ resp.op = "unSaveJobPost"
  /\ resp.outcome = "redirect:/login"
  /\ \E s \in savedJobPost : s.id = resp.arg
  /\ \E r \in jobPost : TRUE

\* C21: a request to any of the seven server actions that the bot
\* protection denies fails with "Forbidden" and changes neither the store
\* nor the scheduler and payment state.  A createJob request is denied
\* whenever the protection service would deny it, asked or not.
C21_DeniedForbidden ==
  [][resp'.op \in {"createCompany", "createJobSeeker", "createJob",
                   "editJobPost", "deleteJobPost", "saveJobPost",
                   "unSaveJobPost"} =>
     \A u \in Users :
       (\/ createCompany(u, TRUE, CompanyGood)
        \/ createJobSeeker(u, TRUE, SeekerGood)
        \/ createJob(u, JobA)
        \/ \E j \in JobIds :
             \/ editJobPost(u, TRUE, JobB, j)
             \/ deleteJobPost(u, TRUE, j)
             \/ saveJobPost(u, TRUE, j)
        \/ \E sid \in SavedIds : unSaveJobPost(u, TRUE, sid))
       => /\ resp'.outcome = "throw:Forbidden"
          /\ store' = store
          /\ external' = external]_vars

\* C22: a createJob that completes (redirects to the checkout) has added
\* exactly one JobPost, owned by the user's company and in status DRAFT,
\* has submitted exactly one "job/created" event carrying the job's id and
\* its listing duration as expirationDays, and has created one checkout
\* session carrying the job's id; no other JobPost has changed.
C22_CreateJobEffects ==
  [][resp'.op = "createJob" =>
     \A u \in Users, d \in JobInputs \cup {JobC} :
       (createJob(u, d) /\ resp'.outcome = "redirect:checkout")
       => \E r2 \in jobPost' :
            /\ r2.id = resp'.arg
            /\ ~\E r \in jobPost : r.id = r2.id
            /\ jobPost' = jobPost \cup {r2}
            /\ \E c \in company : c.userId = u /\ c.id = r2.companyId
            /\ r2.status = "DRAFT"
            /\ r2.listingDuration = d.listingDuration
            /\ Len(inngestEvents') = Len(inngestEvents) + 1
            /\ SubSeq(inngestEvents', 1, Len(inngestEvents)) = inngestEvents
            /\ inngestEvents'[Len(inngestEvents')] =
                 [name |-> "job/created", jobId |-> r2.id,
                  expirationDays |-> d.listingDuration]
            /\ Cardinality({i \in 1..Len(inngestEvents') :
                              /\ inngestEvents'[i].name = "job/created"
                              /\ inngestEvents'[i].jobId = r2.id}) = 1
            /\ \E cs \in checkoutSessions' \ checkoutSessions :
                 /\ cs.jobId = r2.id
                 /\ checkoutSessions' = checkoutSessions \cup {cs}]_vars

C22_Witness ==
  /\ resp.op = "createJob"
  /\ resp.outcome = "redirect:checkout"
  /\ \E r \in jobPost : r.id = resp.arg /\ r.status = "DRAFT"
  /\ \E r \in jobPost : r.id # resp.arg /\ r.status = "ACTIVE"
  /\ Cardinality(checkoutSessions) = 2

\* C23: in the intended onboarding flow no User owns both a Company and a
\* JobSeeker profile, whatever the interleaving of page loads and form
\* submissions is.
C23_OneProfilePerUser ==
  \A u \in Users :
    ~(/\ \E c \in company : c.userId = u
      /\ \E s \in jobSeeker : s.userId = u)

\* C24: for a jobTypes parameter that is absent or the empty string, each
\* page of the listing is the page of the ACTIVE JobPosts that pass the
\* location filter, with no employment-type filter applied.
C24_NoTypeSelectedNoFilter ==
  \A jobTypes \in {Undefined, Param(<<>>)}, page \in Pages,
     location \in LocationParams :
    getData(page, PageSize, JobTypesSplit(jobTypes), LocationMod(location)).jobs
      = getData(page, PageSize, {}, LocationMod(location)).jobs

\* C25: for 1 <= currentPage <= totalPages the pagination items hold the
\* current page exactly once, page 1 and page totalPages, their page
\* numbers strictly increasing, every page when totalPages <= 5, and an
\* ellipsis only between two page numbers that are not consecutive.
C25_PaginationItems ==
  resp.op = "MainPagination" =>
    LET items == resp.items
        n == Len(items)
    IN /\ Cardinality({i \in 1..n : items[i] = resp.arg}) = 1
       /\ \E i \in 1..n : items[i] = 1
       /\ \E i \in 1..n : items[i] = resp.totalPages
       /\ \A i, j \in 1..n :
            (i < j /\ items[i] # Ellipsis /\ items[j] # Ellipsis)
            => items[i] < items[j]
       /\ resp.totalPages <= 5 =>
            (n = resp.totalPages /\ \A i \in 1..n : items[i] = i)
       /\ \A i \in 1..n :
            items[i] = Ellipsis
            => /\ 1 < i /\ i < n
               /\ items[i - 1] # Ellipsis
               /\ items[i + 1] # Ellipsis
               /\ items[i + 1] > items[i - 1] + 1

C25_Witness ==
  /\ resp.op = "MainPagination"
  /\ resp.totalPages > 5
  /\ resp.arg = 4
  /\ Len(resp.items) = 7

\* C26: no step takes a JobPost from status EXPIRE to status ACTIVE.
C26_ExpirationFinal ==
  [][\A r \in jobPost, r2 \in jobPost' :
       (r.id = r2.id /\ r.status = "EXPIRE") => r2.status # "ACTIVE"]_vars

\* C27: in every state each User with a payment-customer reference owns
\* a Company, and a webhook delivery whose customer lookup finds a user
\* changes only JobPosts of that user's company.
C27_CustomerOwnsCompany ==
  /\ [](\A u \in Users :
          user[u].stripeCustomerId # None => \E c \in company : c.userId = u)
  /\ [][resp'.op = "POST" =>
         \A r \in jobPost \ jobPost' :
           \E u \in Users, c \in company :
             /\ user[u].stripeCustomerId = resp'.customer
             /\ c.userId = u
             /\ r.companyId = c.id]_vars

C27_Witness ==
  /\ resp.op = "POST"
  /\ resp.status = 200
  /\ \A u \in Users : user[u].stripeCustomerId # None
  /\ \E r1, r2 \in jobPost :
       /\ r1.companyId # r2.companyId
       /\ r1.id = resp.arg /\ r1.status = "ACTIVE"
       /\ r2.status = "DRAFT"

\* C28: under every interleaving of createJob requests of one user, the
\* customer attached to each checkout session created is the payment
\* customer stored on the user who owns the session's job, in every later
\* state, so the completion webhook of the session finds that user's
\* company.
C28_SessionCustomerStored ==
  \A s \in checkoutSessions :
    \A r \in JobById(s.jobId) :
      \E u \in Users :
        /\ \E c \in CompanyOfUser(u) : c.id = r.companyId
        /\ user[u].stripeCustomerId = s.customer

\* C29: in every reachable state, for every existing JobPost the
\* expirationDays carried by its "job/created" message equals the listing
\* duration currently stored on the JobPost.
C29_ExpirationDaysCurrent ==
  \A r \in jobPost :
    \A i \in 1..Len(inngestEvents) :
      (inngestEvents[i].name = "job/created" /\ inngestEvents[i].jobId = r.id)
        => inngestEvents[i].expirationDays = r.listingDuration

\* C30: in every reachable state a user's onBoardingCompleted flag is true
\* exactly when the user owns a Company or a JobSeeker profile, and the
\* user type is unset exactly when the flag is false; a failed createCompany
\* or createJobSeeker changes neither the flag, the user type nor any
\* profile.
C30_FlagIffProfile ==
  /\ [](\A u \in Users :
          /\ user[u].onBoardingCompleted <=>
               (CompanyOfUser(u) # {} \/ \E s \in jobSeeker : s.userId = u)
          /\ (user[u].userType = "NONE") <=> ~user[u].onBoardingCompleted)
  /\ [][(/\ resp'.op \in {"createCompany", "createJobSeeker"}
         /\ resp'.outcome # "redirect:/")
          => UNCHANGED <<user, company, jobSeeker>>]_vars

C30_Witness ==
  /\ resp.op = "createCompany"
  /\ resp.outcome = "throw:P2002"
  /\ CompanyOfUser(resp.user) # {}
  /\ \E u \in Users :
       /\ ~user[u].onBoardingCompleted
       /\ user[u].userType = "NONE"
  /\ \E u \in Users :
       /\ user[u].onBoardingCompleted
       /\ user[u].userType = "COMPANY"

====
